---- MODULE Spec2Model ----
(***************************************************************************)
(* A model of tmaiaroto/gocsv (src/csv.go): the CSV Reader (parseQuoted,   *)
(* parseCell, ReadRow, ReadAll) over a byte source, and the CSV Writer     *)
(* (needsQuotes, writeCell, WriteRow, WriteAll) over a buffered sink.      *)
(*                                                                         *)
(* Bytes are their numeric values, strings are sequences of bytes, and an  *)
(* error is the name of the Go error value ("nil" for no error).           *)
(***************************************************************************)
EXTENDS Integers, Sequences, FiniteSets, TLC

(***************************************************************************)
(* Byte values the code names.                                             *)
(***************************************************************************)
NUL == 0
TAB == 9
LF == 10
CR == 13
SP == 32
QUOTE == 34
COMMA == 44
SEMI == 59

(***************************************************************************)
(* Bounds of the model.                                                    *)
(***************************************************************************)
\* Longest content of a byte source that Init hands to a Reader.
MaxLen == 3

\* The bytes a source may hold.  Whichever of ',' and ';' is not the
\* configured FieldDelim is an ordinary data byte.
RBytes == {NUL, QUOTE, COMMA, SEMI, LF, CR, SP}

\* The values a client assigns to Reader.Config.FieldDelim.
RDelims == {COMMA, SEMI}

\* The errors a byte source reports once its bytes are used up: a clean end,
\* or a failure of the underlying stream.
SrcEnds == {"EOF", "ErrIO"}

RECURSIVE SeqsUpTo(_, _)
SeqsUpTo(S, n) ==
    IF n = 0 THEN {<<>>}
    ELSE LET shorter == SeqsUpTo(S, n - 1)
         IN  shorter \cup {Append(s, x) : s \in {t \in shorter : Len(t) = n - 1}, x \in S}

Inputs == SeqsUpTo(RBytes, MaxLen)

VARIABLES
    src,      \* Reader.br: the bytes of the byte source
    srcEnd,   \* Reader.br: the error the source reports after its last byte
    pos,      \* Reader.br: bytes consumed; Len(src)+1 once the source has reported its end
    rcfg,     \* Reader.Config
    ret,      \* what the last Reader call returned and where it started; cleared when
              \* the client assigns Config, so rcfg is the Config that call ran under
    wbuf,     \* Writer.out: the bytes bufio.Writer holds, not yet handed to the sink
    werr,     \* Writer.out: bufio.Writer's sticky error
    sink,     \* the bytes the io.Writer under Writer.out has received
    wcfg,     \* Writer.Config
    written   \* the rows whose WriteRow returned nil, each with the FieldDelim it was written under

rvars == <<src, srcEnd, pos, rcfg, ret>>
wvars == <<wbuf, werr, sink, wcfg, written>>
vars == <<src, srcEnd, pos, rcfg, ret, wbuf, werr, sink, wcfg, written>>

(***************************************************************************)
(* Config and its default.                                                 *)
(***************************************************************************)
DefaultConfig == [TrimSpaces |-> FALSE, FieldDelim |-> COMMA]

(***************************************************************************)
(* The byte source: r.br.ReadByte().  A read that yields no byte returns   *)
(* the byte value 0 with the error, as strings.Reader and bufio.Reader do. *)
(***************************************************************************)
ReadByte(s, p, end) ==
    IF p < Len(s)
    THEN [b |-> s[p + 1], e |-> "nil", pos |-> p + 1]
    ELSE [b |-> NUL, e |-> end, pos |-> Len(s) + 1]

(***************************************************************************)
(* parseQuoted                                                             *)
(***************************************************************************)
\* Mutant of quotedReadErr: the end of input inside quotes stays io.EOF.
quotedReadErr_keepEOF(e) == e

\* if e == io.EOF { e = io.ErrUnexpectedEOF }
quotedReadErr(e) == IF e = "EOF" THEN "ErrUnexpectedEOF" ELSE e

\* Mutant of eatTrailing: the spaces after a closing quote are not eaten.
eatTrailing_none(s, r, end) == r

\* for b == ' ' && e == nil { b, e = r.br.ReadByte() }
RECURSIVE eatTrailing(_, _, _)
eatTrailing(s, r, end) ==
    IF r.b = SP /\ r.e = "nil" THEN eatTrailing(s, ReadByte(s, r.pos, end), end) ELSE r

\* What parseQuoted returns when the byte after a '"' is not a second '"':
\* the text, the byte the space-eating loop stopped at, and a nil error.
quotedClose(buf, r3) == [text |-> buf, term |-> r3.b, err |-> "nil", pos |-> r3.pos]

RECURSIVE quotedLoop(_, _, _, _)
quotedLoop(s, p, end, buf) ==
    LET r == ReadByte(s, p, end)
    IN  IF r.e # "nil"
        THEN [text |-> <<>>, term |-> NUL, err |-> quotedReadErr(r.e), pos |-> r.pos]
        ELSE IF r.b = QUOTE
        THEN LET r2 == ReadByte(s, r.pos, end)
             IN  IF r2.b = QUOTE /\ r2.e = "nil"
                 THEN quotedLoop(s, r2.pos, end, Append(buf, QUOTE))
                 ELSE quotedClose(buf, eatTrailing(s, r2, end))
        ELSE quotedLoop(s, r.pos, end, Append(buf, r.b))

parseQuoted(s, p, end) == quotedLoop(s, p, end, <<>>)

(***************************************************************************)
(* parseCell                                                               *)
(***************************************************************************)
\* if r.Config.TrimSpaces { for b == ' ' && e == nil { b, e = r.br.ReadByte() } }
RECURSIVE eatLeading(_, _, _, _)
eatLeading(s, r, end, cfg) ==
    IF cfg.TrimSpaces /\ r.b = SP /\ r.e = "nil"
    THEN eatLeading(s, ReadByte(s, r.pos, end), end, cfg)
    ELSE r

\* Mutant of trailingAfter: only ' ' counts as trailing space, '\r' does not.
trailingAfter_spaceOnly(cfg, b, n) ==
    IF cfg.TrimSpaces
    THEN IF b = SP THEN n + 1 ELSE 0
    ELSE n

\* The update of trailing_spaces for one copied byte.
trailingAfter(cfg, b, n) ==
    IF cfg.TrimSpaces
    THEN IF b = SP \/ b = CR THEN n + 1 ELSE 0
    ELSE n

\* The unquoted copy loop: for e == nil && b != '\n' && b != r.Config.FieldDelim
RECURSIVE unquotedLoop(_, _, _, _, _, _, _)
unquotedLoop(s, r, end, cfg, buf, trailing, last) ==
    IF r.e = "nil" /\ r.b # LF /\ r.b # cfg.FieldDelim
    THEN unquotedLoop(s, ReadByte(s, r.pos, end), end, cfg,
                      Append(buf, r.b), trailingAfter(cfg, r.b, trailing), r.b)
    ELSE [buf |-> buf, trailing |-> trailing, last |-> last,
          b |-> r.b, e |-> r.e, pos |-> r.pos]

\* Mutant of crlfSuppress: the '\r' of a "\r\n" is never dropped.
crlfSuppress_never(last, b, trailing) == trailing

\* if last == '\r' && b == '\n' && trailing_spaces == 0 { trailing_spaces = 1 }
crlfSuppress(last, b, trailing) ==
    IF last = CR /\ b = LF /\ trailing = 0 THEN 1 ELSE trailing

parseCell(s, p, end, cfg) ==
    LET r == eatLeading(s, ReadByte(s, p, end), end, cfg)
    IN  IF r.e = "EOF"
        THEN [text |-> <<>>, term |-> NUL, err |-> "EOF", pos |-> r.pos]
        ELSE IF r.b = QUOTE /\ r.e = "nil"
        THEN parseQuoted(s, r.pos, end)
        ELSE LET u == unquotedLoop(s, r, end, cfg, <<>>, 0, NUL)
             IN  IF u.e # "nil" /\ u.e # "EOF"
                 THEN [text |-> <<>>, term |-> NUL, err |-> u.e, pos |-> u.pos]
                 ELSE LET t == crlfSuppress(u.last, u.b, u.trailing)
                      IN  [text |-> SubSeq(u.buf, 1, Len(u.buf) - t),
                           term |-> u.b, err |-> "nil", pos |-> u.pos]

(***************************************************************************)
(* ReadRow.  A nil []string is the empty sequence: the code never returns  *)
(* an empty non-nil row.                                                   *)
(***************************************************************************)
\* Mutant of rowOnCellErr: the cell is appended at io.EOF even to an empty result.
rowOnCellErr_always(result, c) ==
    [row |-> IF c.err = "EOF" THEN Append(result, c.text) ELSE result,
     err |-> c.err, pos |-> c.pos]

\* if e != nil { if e == io.EOF && len(result) > 0 { result = append(result, c) }; return result, e }
rowOnCellErr(result, c) ==
    [row |-> IF c.err = "EOF" /\ Len(result) > 0 THEN Append(result, c.text) ELSE result,
     err |-> c.err, pos |-> c.pos]

\* Line endings may be '\r\n', so eat '\r'.
afterTerm(s, c, end) ==
    IF c.term = CR THEN ReadByte(s, c.pos, end)
    ELSE [b |-> c.term, e |-> "nil", pos |-> c.pos]

RECURSIVE rowLoop(_, _, _, _, _)
rowLoop(s, p, end, cfg, result) ==
    LET c == parseCell(s, p, end, cfg)
    IN  IF c.err # "nil"
        THEN rowOnCellErr(result, c)
        ELSE LET res == Append(result, c.text)
             IN  IF c.term = NUL
                 THEN [row |-> res, err |-> "nil", pos |-> c.pos]
                 ELSE LET r == afterTerm(s, c, end)
                      IN  IF r.e # "nil"
                          THEN [row |-> <<>>, err |-> r.e, pos |-> r.pos]
                          ELSE IF r.b = cfg.FieldDelim
                          THEN rowLoop(s, r.pos, end, cfg, res)
                          ELSE IF r.b = LF
                          THEN [row |-> res, err |-> "nil", pos |-> r.pos]
                          ELSE [row |-> <<>>, err |-> "ErrExpected", pos |-> r.pos]

\* Mutant of ReadRowFrom: a call that meets the end of the input before any
\* cell returns the row [""] with io.EOF.
ReadRowFrom_eofRow(s, p, end, cfg) ==
    LET r == rowLoop(s, p, end, cfg, <<>>)
    IN  IF r.err = "EOF" /\ r.row = <<>> THEN [r EXCEPT !.row = << <<>> >>] ELSE r

\* Mutant of ReadRowFrom: a call that fails with an error other than io.EOF
\* leaves the source where it found it.
ReadRowFrom_rewind(s, p, end, cfg) ==
    LET r == rowLoop(s, p, end, cfg, <<>>)
    IN  IF r.err \in {"nil", "EOF"} THEN r ELSE [r EXCEPT !.pos = p]

ReadRowFrom(s, p, end, cfg) == rowLoop(s, p, end, cfg, <<>>)

(***************************************************************************)
(* ReadAll.  nilTable tells the nil [][]string of the error return from    *)
(* the empty, non-nil table of make([][]string, 0, 32).                    *)
(***************************************************************************)
\* if e != nil { if e == io.EOF { break }; return nil, e }
allOnRowErr(rows, r) ==
    IF r.err = "EOF"
    THEN [rows |-> rows, nilTable |-> FALSE, err |-> "nil", pos |-> r.pos]
    ELSE [rows |-> <<>>, nilTable |-> TRUE, err |-> r.err, pos |-> r.pos]

RECURSIVE allLoop(_, _, _, _, _)
allLoop(s, p, end, cfg, rows) ==
    LET r == ReadRowFrom(s, p, end, cfg)
    IN  IF r.err # "nil"
        THEN allOnRowErr(rows, r)
        ELSE allLoop(s, r.pos, end, cfg, Append(rows, r.row))

ReadAllFrom(s, p, end, cfg) == allLoop(s, p, end, cfg, <<>>)

\* The number of times the loop of ReadAll calls r.ReadRow().
RECURSIVE allLoopCalls(_, _, _, _)
allLoopCalls(s, p, end, cfg) ==
    LET r == ReadRowFrom(s, p, end, cfg)
    IN  IF r.err # "nil" THEN 1 ELSE 1 + allLoopCalls(s, r.pos, end, cfg)

(***************************************************************************)
(* The Reader's state machine.                                             *)
(***************************************************************************)
NoRet ==
    [op |-> "none", from |-> 0, text |-> <<>>, term |-> NUL, row |-> <<>>,
     rows |-> <<>>, nilTable |-> FALSE, err |-> "nil"]

\* NewReader(r): a Reader over a byte source, with the default Config.
NewReader ==
    /\ src \in Inputs
    /\ srcEnd \in SrcEnds
    /\ pos = 0
    /\ rcfg = DefaultConfig
    /\ ret = NoRet

\* NewWriter(w): an empty bufio.Writer over the sink, with the default Config.
NewWriter ==
    /\ wbuf = <<>>
    /\ werr = "nil"
    /\ sink = <<>>
    /\ wcfg = DefaultConfig
    /\ written = <<>>

InitReader == NewReader /\ NewWriter

\* r.Config.TrimSpaces = t, by the client between two calls.
SetTrimSpaces ==
    /\ \E t \in BOOLEAN :
          /\ t # rcfg.TrimSpaces
          /\ rcfg' = [rcfg EXCEPT !.TrimSpaces = t]
    /\ ret' = NoRet
    /\ UNCHANGED <<src, srcEnd, pos>>
    /\ UNCHANGED wvars

\* r.Config.FieldDelim = d, by the client between two calls.
SetFieldDelim ==
    /\ \E d \in RDelims :
          /\ d # rcfg.FieldDelim
          /\ rcfg' = [rcfg EXCEPT !.FieldDelim = d]
    /\ ret' = NoRet
    /\ UNCHANGED <<src, srcEnd, pos>>
    /\ UNCHANGED wvars

CallParseCell ==
    LET c == parseCell(src, pos, srcEnd, rcfg)
    IN  /\ pos' = c.pos
        /\ ret' = [NoRet EXCEPT !.op = "parseCell", !.from = pos,
                                !.text = c.text, !.term = c.term, !.err = c.err]
        /\ UNCHANGED <<src, srcEnd, rcfg>>
        /\ UNCHANGED wvars

\* Mutant of ReadRow: the row is scanned under the Config of NewReader, not
\* under the Config in force at the call.
ReadRow_snapshot ==
    LET r == ReadRowFrom(src, pos, srcEnd, DefaultConfig)
    IN  /\ pos' = r.pos
        /\ ret' = [NoRet EXCEPT !.op = "ReadRow", !.from = pos,
                                !.row = r.row, !.err = r.err]
        /\ UNCHANGED <<src, srcEnd, rcfg>>
        /\ UNCHANGED wvars

ReadRow ==
    LET r == ReadRowFrom(src, pos, srcEnd, rcfg)
    IN  /\ pos' = r.pos
        /\ ret' = [NoRet EXCEPT !.op = "ReadRow", !.from = pos,
                                !.row = r.row, !.err = r.err]
        /\ UNCHANGED <<src, srcEnd, rcfg>>
        /\ UNCHANGED wvars

ReadAll ==
    LET a == ReadAllFrom(src, pos, srcEnd, rcfg)
    IN  /\ pos' = a.pos
        /\ ret' = [NoRet EXCEPT !.op = "ReadAll", !.from = pos, !.rows = a.rows,
                                !.nilTable = a.nilTable, !.err = a.err]
        /\ UNCHANGED <<src, srcEnd, rcfg>>
        /\ UNCHANGED wvars

ReaderNext ==
    \/ SetTrimSpaces
    \/ SetFieldDelim
    \/ CallParseCell
    \/ ReadRow
    \/ ReadAll

SpecReader == InitReader /\ [][ReaderNext]_vars

(***************************************************************************)
(* A Reader over sources that open with a quoted cell, long enough for a   *)
(* closed quoted cell to hold a doubled quote and be followed by spaces.   *)
(***************************************************************************)
\* Most bytes that follow the opening '"' in such a source.
MaxQuoted == 4

\* The bytes that follow it: the bytes parseQuoted tells apart, and the bytes
\* that end an unquoted cell or a line.
QBytes == {QUOTE, COMMA, LF, CR, SP}

\* The sources: an opening '"', alone or after one space, then the bytes.
QuotedInputs ==
    {lead \o <<QUOTE>> \o body : lead \in {<<>>, <<SP>>}, body \in SeqsUpTo(QBytes, MaxQuoted)}

\* NewReader(r) over such a source.
NewQuotedReader ==
    /\ src \in QuotedInputs
    /\ srcEnd \in SrcEnds
    /\ pos = 0
    /\ rcfg = DefaultConfig
    /\ ret = NoRet

InitQuoted == NewQuotedReader /\ NewWriter

SpecQuoted == InitQuoted /\ [][ReaderNext]_vars

(***************************************************************************)
(* The Writer.  Its bufio.Writer is the pair (buf, err): bytes written to  *)
(* it gather in buf until Flush hands them to the sink, and a failed flush *)
(* leaves err set, after which every write returns err and changes nothing.*)
(* The rows of this model never fill bufio's 4096-byte buffer, so the only *)
(* call that reaches the sink is the Flush that ends WriteRow.             *)
(***************************************************************************)
\* Longest table, counted as TableSize counts it, a Writer is given.
MaxTable == 5

\* The bytes a field may hold: the bytes needsQuotes looks for, '\r', and the
\* bytes 0xA9 and 0xC2 (a continuation byte and a two-byte lead of UTF-8).
WBytes == {SP, QUOTE, COMMA, LF, CR, TAB, 169, 194}

\* The values a client assigns to Writer.Config.FieldDelim.
WDelims == {COMMA, 169}

RECURSIVE CellsSize(_)
CellsSize(row) == IF row = <<>> THEN 0 ELSE 1 + Len(Head(row)) + CellsSize(Tail(row))

RECURSIVE TableSize(_)
TableSize(rows) == IF rows = <<>> THEN 0 ELSE 1 + CellsSize(Head(rows)) + TableSize(Tail(rows))

\* The rows with CellsSize at most n.
RECURSIVE CellLists(_)
CellLists(n) ==
    IF n <= 0 THEN {<<>>}
    ELSE {<<>>} \cup UNION {{<<c>> \o l : l \in CellLists(n - 1 - Len(c))} :
                             c \in SeqsUpTo(WBytes, n - 1)}

\* The tables with TableSize at most n.
RECURSIVE TablesUpTo(_)
TablesUpTo(n) ==
    IF n <= 0 THEN {<<>>}
    ELSE {<<>>} \cup UNION {{<<r>> \o t : t \in TablesUpTo(n - 1 - CellsSize(r))} :
                             r \in CellLists(n - 1)}

\* The rows, and the tables, a Writer that has room for n more may be given.
RowsFor == [n \in 0..MaxTable |-> IF n = 0 THEN {} ELSE CellLists(n - 1)]
TablesFor == [n \in 0..MaxTable |-> TablesUpTo(n)]

\* for _, c := range s: the rune at byte i of s and the bytes it takes.  A byte
\* below 0x80 is itself; a lead 0xC2..0xDF with a continuation byte is a
\* two-byte rune; a byte that starts no valid encoding is U+FFFD, one byte
\* wide.  (WBytes holds no lead of a three- or four-byte encoding.)
decodeRune(s, i) ==
    IF s[i] < 128 THEN [r |-> s[i], w |-> 1]
    ELSE IF s[i] >= 194 /\ s[i] <= 223 /\ i < Len(s) /\ s[i + 1] >= 128 /\ s[i + 1] <= 191
    THEN [r |-> (s[i] - 192) * 64 + (s[i + 1] - 128), w |-> 2]
    ELSE [r |-> 65533, w |-> 1]

\* switch c { case '\n', '"', '\t', rune(w.Config.FieldDelim): return true }
RECURSIVE rangeHasSpecial(_, _, _)
rangeHasSpecial(s, i, cfg) ==
    IF i > Len(s) THEN FALSE
    ELSE LET d == decodeRune(s, i)
         IN  \/ d.r \in {LF, QUOTE, TAB, cfg.FieldDelim}
             \/ rangeHasSpecial(s, i + d.w, cfg)

needsQuotes(s, cfg) ==
    \/ Len(s) > 0 /\ (s[1] = SP \/ s[Len(s)] = SP)
    \/ rangeHasSpecial(s, 1, cfg)

\* w.out.WriteByte / w.out.WriteString on the bufio.Writer w.
bufWrite(w, bytes) ==
    IF w.err # "nil" THEN w ELSE [w EXCEPT !.buf = @ \o bytes]

\* Mutant of quotedBody: a '"' is written once, like any other byte.
quotedBody_verbatim(w, cell, i) == bufWrite(w, SubSeq(cell, i, Len(cell)))

\* The loop of writeCell over the bytes of a quoted cell.
RECURSIVE quotedBody(_, _, _)
quotedBody(w, cell, i) ==
    IF i > Len(cell) \/ w.err # "nil" THEN w
    ELSE quotedBody(bufWrite(w, IF cell[i] = QUOTE THEN <<QUOTE, QUOTE>> ELSE <<cell[i]>>),
                    cell, i + 1)

writeCell(w, cell, cfg) ==
    IF needsQuotes(cell, cfg)
    THEN LET w1 == bufWrite(w, <<QUOTE>>)
         IN  IF w1.err # "nil" THEN w1
             ELSE LET w2 == quotedBody(w1, cell, 1)
                  IN  IF w2.err # "nil" THEN w2 ELSE bufWrite(w2, <<QUOTE>>)
    ELSE bufWrite(w, cell)

\* for i, cell := range row { if i > 0 { WriteByte(FieldDelim) }; writeCell(cell) }
RECURSIVE rowCells(_, _, _, _)
rowCells(w, row, i, cfg) ==
    IF i > Len(row) \/ w.err # "nil" THEN w
    ELSE LET w1 == IF i > 1 THEN bufWrite(w, <<cfg.FieldDelim>>) ELSE w
         IN  IF w1.err # "nil" THEN w1
             ELSE rowCells(writeCell(w1, row[i], cfg), row, i + 1, cfg)

\* Mutant of Flush: WriteRow returns without flushing.
Flush_dropped(w, out, fail, n) == [buf |-> w.buf, err |-> w.err, out |-> out]

\* w.out.Flush() when the sink takes the first n bytes of the buffer and then
\* fails (fail), or takes them all.
Flush(w, out, fail, n) ==
    IF w.err # "nil" \/ w.buf = <<>>
    THEN [buf |-> w.buf, err |-> w.err, out |-> out]
    ELSE IF fail
    THEN [buf |-> SubSeq(w.buf, n + 1, Len(w.buf)), err |-> "ErrSink",
          out |-> out \o SubSeq(w.buf, 1, n)]
    ELSE [buf |-> <<>>, err |-> "nil", out |-> out \o w.buf]

\* WriteRow on the bufio.Writer w over a sink holding out.
WriteRowTo(w, out, row, cfg, fail, n) ==
    LET w1 == rowCells(w, row, 1, cfg)
    IN  IF w1.err # "nil" THEN [buf |-> w1.buf, err |-> w1.err, out |-> out]
        ELSE LET w2 == bufWrite(w1, <<LF>>)
             IN  IF w2.err # "nil" THEN [buf |-> w2.buf, err |-> w2.err, out |-> out]
                 ELSE Flush(w2, out, fail, n)

\* WriteAll: WriteRow for each row, until one returns an error.  The sink
\* fails on the flush of row failAt (0: on none), having taken n bytes of it.
\* err is the bufio.Writer's error afterwards, which is also what WriteAll
\* returns unless rows is empty.
RECURSIVE WriteAllTo(_, _, _, _, _, _, _, _)
WriteAllTo(w, out, rows, i, cfg, failAt, n, done) ==
    IF i > Len(rows) THEN [buf |-> w.buf, err |-> w.err, out |-> out, done |-> done]
    ELSE LET r == WriteRowTo(w, out, rows[i], cfg, i = failAt, n)
         IN  IF r.err # "nil" THEN [buf |-> r.buf, err |-> r.err, out |-> r.out, done |-> done]
             ELSE WriteAllTo([buf |-> r.buf, err |-> r.err], r.out, rows, i + 1, cfg, failAt, n,
                             Append(done, [row |-> rows[i], delim |-> cfg.FieldDelim]))

(***************************************************************************)
(* The Writer's state machine, and a Reader opened on what it wrote.       *)
(***************************************************************************)
WrittenRows == [i \in 1..Len(written) |-> written[i].row]

\* What the bound MaxTable leaves for further rows.  Once the bufio.Writer has
\* failed every call returns its error before looking at a cell, whatever the
\* rows are: the empty row and the one-row table stand for all of them.
Room == IF werr = "nil" THEN MaxTable - TableSize(WrittenRows) ELSE 1

\* No Reader yet: one over an empty source stands for it.
NoReader ==
    /\ src = <<>>
    /\ srcEnd = "EOF"
    /\ pos = 0
    /\ rcfg = DefaultConfig
    /\ ret = NoRet

InitWriter == NewWriter /\ NoReader

\* w.Config.FieldDelim = d, by the client between two calls.
SetWriterDelim ==
    /\ \E d \in WDelims :
          /\ d # wcfg.FieldDelim
          /\ wcfg' = [wcfg EXCEPT !.FieldDelim = d]
    /\ UNCHANGED <<wbuf, werr, sink, written>>
    /\ UNCHANGED rvars

\* The bytes one row adds to an empty, error-free buffer.
rowLine(row, cfg) == bufWrite(rowCells([buf |-> <<>>, err |-> "nil"], row, 1, cfg), <<LF>>).buf

WriteRow ==
    \E row \in RowsFor[Room] :
        /\ \E fail \in (IF werr = "nil" THEN BOOLEAN ELSE {FALSE}),
                 n \in 0..(Len(wbuf) + Len(rowLine(row, wcfg))) :
              /\ ~fail => n = Len(wbuf) + Len(rowLine(row, wcfg))
              /\ LET r == WriteRowTo([buf |-> wbuf, err |-> werr], sink, row, wcfg, fail, n)
                 IN  /\ wbuf' = r.buf
                     /\ werr' = r.err
                     /\ sink' = r.out
                     /\ written' = IF r.err = "nil"
                                   THEN Append(written, [row |-> row, delim |-> wcfg.FieldDelim])
                                   ELSE written
        /\ UNCHANGED wcfg
        /\ UNCHANGED rvars

WriteAll ==
    \E rows \in TablesFor[Room] :
        /\ \E failAt \in 0..(IF werr = "nil" THEN Len(rows) ELSE 0) :
              \E n \in 0..(IF failAt = 0 THEN 0
                           ELSE Len(wbuf) + Len(rowLine(rows[failAt], wcfg))) :
                 LET r == WriteAllTo([buf |-> wbuf, err |-> werr], sink, rows, 1, wcfg,
                                     failAt, n, <<>>)
                 IN  /\ wbuf' = r.buf
                     /\ werr' = r.err
                     /\ sink' = r.out
                     /\ written' = written \o r.done
        /\ UNCHANGED wcfg
        /\ UNCHANGED rvars

\* NewReader over the bytes the sink has received, with the Writer's
\* FieldDelim as its Config.FieldDelim.
OpenSink ==
    /\ src' = sink
    /\ srcEnd' = "EOF"
    /\ pos' = 0
    /\ rcfg' = [DefaultConfig EXCEPT !.FieldDelim = wcfg.FieldDelim]
    /\ ret' = NoRet
    /\ UNCHANGED wvars

WriterNext ==
    \/ SetWriterDelim
    \/ WriteRow
    \/ WriteAll

SpecWriter == InitWriter /\ [][WriterNext]_vars

\* A client of the package that uses a Reader or a Writer.  The two share no
\* state, so the Reader runs while the Writer is as NewWriter left it and the
\* Writer runs while the Reader has not been touched.
ClientNext ==
    \/ NewWriter /\ ReaderNext
    \/ NoReader /\ WriterNext

SpecClient == InitReader /\ [][ClientNext]_vars

RoundTripNext ==
    \/ WriterNext
    \/ OpenSink
    \/ ReadAll

SpecRoundTrip == InitWriter /\ [][RoundTripNext]_vars

(***************************************************************************)
(* Notions the properties below are stated with.  They describe the input  *)
(* and the expected output on their own, without the operators above.      *)
(***************************************************************************)
Bytes(s) == {s[i] : i \in 1..Len(s)}

\* The index of the first byte of s after index from that is in S, or Len(s)+1.
RECURSIVE FirstIn(_, _, _)
FirstIn(s, from, S) ==
    IF from >= Len(s) THEN Len(s) + 1
    ELSE IF s[from + 1] \in S THEN from + 1
    ELSE FirstIn(s, from + 1, S)

\* The index of the first byte of s after index from that is not in S, or Len(s)+1.
RECURSIVE FirstNotIn(_, _, _)
FirstNotIn(s, from, S) ==
    IF from >= Len(s) THEN Len(s) + 1
    ELSE IF s[from + 1] \notin S THEN from + 1
    ELSE FirstNotIn(s, from + 1, S)

\* The index of the first significant byte of the cell that starts after from.
FirstSig(s, from, cfg) == IF cfg.TrimSpaces THEN FirstNotIn(s, from, {SP}) ELSE from + 1

\* From index i on, s holds no '"' other than doubled ones: a quoted field
\* whose text starts at i is never closed.
RECURSIVE Unclosed(_, _)
Unclosed(s, i) ==
    IF i > Len(s) THEN TRUE
    ELSE IF s[i] # QUOTE THEN Unclosed(s, i + 1)
    ELSE IF i < Len(s) /\ s[i + 1] = QUOTE THEN Unclosed(s, i + 2)
    ELSE FALSE

\* The index of the '"' that closes a quoted field whose text starts at index i
\* of s (the first '"' that is not the first of a pair), or Len(s)+1.
RECURSIVE ClosingAt(_, _)
ClosingAt(s, i) ==
    IF i > Len(s) THEN Len(s) + 1
    ELSE IF s[i] # QUOTE THEN ClosingAt(s, i + 1)
    ELSE IF i < Len(s) /\ s[i + 1] = QUOTE THEN ClosingAt(s, i + 2)
    ELSE i

\* t with every pair '""' replaced by one '"'.
RECURSIVE Undoubled(_)
Undoubled(t) ==
    IF t = <<>> THEN <<>>
    ELSE IF Len(t) >= 2 /\ t[1] = QUOTE /\ t[2] = QUOTE
    THEN <<QUOTE>> \o Undoubled(SubSeq(t, 3, Len(t)))
    ELSE <<t[1]>> \o Undoubled(Tail(t))

\* A cell starts at index k of s when scanning starts after from: every byte
\* between from and k belongs to unquoted cells, and k follows the start of the
\* scan, a delimiter or a newline (and, when trimming, a run of spaces).
CellStartsAt(s, from, k, cfg) ==
    /\ k > from /\ k <= Len(s)
    /\ QUOTE \notin Bytes(SubSeq(s, from + 1, k - 1))
    /\ \E j \in from..(k - 1) :
          /\ j = from \/ s[j] \in {cfg.FieldDelim, LF}
          /\ IF cfg.TrimSpaces THEN Bytes(SubSeq(s, j + 1, k - 1)) \subseteq {SP} ELSE j = k - 1

\* s without its leading spaces; s without its trailing spaces and '\r'.
RECURSIVE TrimLeft(_)
TrimLeft(s) == IF s # <<>> /\ Head(s) = SP THEN TrimLeft(Tail(s)) ELSE s

RECURSIVE TrimRight(_)
TrimRight(s) ==
    IF s # <<>> /\ s[Len(s)] \in {SP, CR} THEN TrimRight(SubSeq(s, 1, Len(s) - 1)) ELSE s

\* s cut at every byte d.
RECURSIVE Split(_, _)
Split(s, d) ==
    LET k == FirstIn(s, 0, {d})
    IN  IF k > Len(s) THEN <<s>>
        ELSE <<SubSeq(s, 1, k - 1)>> \o Split(SubSeq(s, k + 1, Len(s)), d)

\* The bytes of s after its last '\n'.
RECURSIVE LastLine(_)
LastLine(s) ==
    LET k == FirstIn(s, 0, {LF})
    IN  IF k > Len(s) THEN s ELSE LastLine(SubSeq(s, k + 1, Len(s)))

CountOf(s, b) == Cardinality({i \in 1..Len(s) : s[i] = b})

\* s with every row-terminating '\n' (one outside a quoted field) replaced by
\* "\r\n".  st is where the scan stands: at the start of a cell, in an unquoted
\* cell, in a quoted one, after a closing quote, or past a byte no cell may
\* hold there (what follows is left as it is).
RECURSIVE ToCRLF(_, _, _, _)
ToCRLF(s, i, st, cfg) ==
    IF i > Len(s) THEN <<>>
    ELSE LET b == s[i]
             more(st2) == ToCRLF(s, i + 1, st2, cfg)
         IN  IF st = "stop" THEN <<b>> \o more("stop")
             ELSE IF st = "quoted"
             THEN IF b # QUOTE THEN <<b>> \o more("quoted")
                  ELSE IF i < Len(s) /\ s[i + 1] = QUOTE
                  THEN <<b, b>> \o ToCRLF(s, i + 2, "quoted", cfg)
                  ELSE <<b>> \o more("after")
             ELSE IF b = LF THEN <<CR, LF>> \o more("start")
             ELSE IF b = cfg.FieldDelim THEN <<b>> \o more("start")
             ELSE IF st = "start"
             THEN IF b = SP /\ cfg.TrimSpaces THEN <<b>> \o more("start")
                  ELSE IF b = QUOTE THEN <<b>> \o more("quoted")
                  ELSE <<b>> \o more("unq")
             ELSE IF st = "unq" THEN <<b>> \o more("unq")
             ELSE IF b = SP THEN <<b>> \o more("after")
             ELSE <<b>> \o more("stop")

\* A field with each '"' doubled.
RECURSIVE Doubled(_)
Doubled(f) ==
    IF f = <<>> THEN <<>>
    ELSE (IF Head(f) = QUOTE THEN <<QUOTE, QUOTE>> ELSE <<Head(f)>>) \o Doubled(Tail(f))

\* The bytes writeCell adds for one field under FieldDelim d.
Encoded(f, d) ==
    writeCell([buf |-> <<>>, err |-> "nil"], f, [DefaultConfig EXCEPT !.FieldDelim = d]).buf

\* The encoded cells of a row joined by one d, none after the last.
RECURSIVE Joined(_, _)
Joined(row, d) ==
    IF row = <<>> THEN <<>>
    ELSE IF Len(row) = 1 THEN Encoded(row[1], d)
    ELSE Encoded(row[1], d) \o <<d>> \o Joined(Tail(row), d)

\* The lines of the rows written, in call order.
RECURSIVE Lines(_)
Lines(w) ==
    IF w = <<>> THEN <<>>
    ELSE Joined(Head(w).row, Head(w).delim) \o <<LF>> \o Lines(Tail(w))

(***************************************************************************)
(* C1.  Round trip with TrimSpaces=false: ReadAll over the bytes WriteAll  *)
(* (or WriteRow) produced for rows of at least one field each, under the   *)
(* same FieldDelim, returns no error and the rows written.                 *)
(***************************************************************************)
C1_RoundTrip ==
    ( /\ ret.op = "ReadAll" /\ ret.from = 0
      /\ src = sink /\ werr = "nil"
      /\ ~rcfg.TrimSpaces
      /\ \A i \in 1..Len(written) :
            Len(written[i].row) >= 1 /\ written[i].delim = rcfg.FieldDelim )
    => ret.err = "nil" /\ ret.rows = WrittenRows

(***************************************************************************)
(* C2.  End-of-input is never merged into a row: over a source that ends   *)
(* cleanly, a ReadRow call that returns io.EOF returns no row.             *)
(***************************************************************************)
C2_EofWithNoRow ==
    (ret.op = "ReadRow" /\ srcEnd = "EOF" /\ ret.err = "EOF") => ret.row = <<>>

(***************************************************************************)
(* C3.  No row is lost by ReadAll: for an input without quotes or '\r',    *)
(* read without trimming from its start, that does not end with '\n' and   *)
(* whose last line holds a non-space byte, a nil-error result has one row  *)
(* per line and the fields of the last line as its last row.               *)
(***************************************************************************)
C3_NoRowLost ==
    ( /\ ret.op = "ReadAll" /\ ret.from = 0 /\ ret.err = "nil"
      /\ ~rcfg.TrimSpaces
      /\ src # <<>> /\ src[Len(src)] # LF
      /\ Bytes(src) \cap {QUOTE, CR} = {}
      /\ Bytes(LastLine(src)) \ {SP} # {} )
    => /\ Len(ret.rows) = CountOf(src, LF) + 1
       /\ ret.rows[Len(ret.rows)] = Split(LastLine(src), rcfg.FieldDelim)

(***************************************************************************)
(* C4.  An unterminated quoted field is a malformed-input error: when a    *)
(* cell opens with '"' and the clean end of the input comes before its     *)
(* closing '"', parseCell returns the empty text with io.ErrUnexpectedEOF, *)
(* and ReadAll returns that error with a nil table, whatever rows it read  *)
(* before.                                                                 *)
(***************************************************************************)
C4_UnterminatedQuote ==
    /\ ( /\ ret.op = "parseCell" /\ srcEnd = "EOF"
         /\ LET k == FirstSig(src, ret.from, rcfg)
            IN  k <= Len(src) /\ src[k] = QUOTE /\ Unclosed(src, k + 1) )
       => ret.text = <<>> /\ ret.err = "ErrUnexpectedEOF"
    /\ ( /\ ret.op = "ReadAll" /\ srcEnd = "EOF"
         /\ \E k \in 1..Len(src) :
               /\ CellStartsAt(src, ret.from, k, rcfg)
               /\ src[k] = QUOTE /\ Unclosed(src, k + 1) )
       => ret.err = "ErrUnexpectedEOF" /\ ret.nilTable /\ ret.rows = <<>>

\* ReadAll has read a row and then met a quoted field that never closes.
C4_Witness ==
    /\ ret.op = "ReadAll" /\ srcEnd = "EOF" /\ ret.from = 0
    /\ ret.err = "ErrUnexpectedEOF" /\ ret.nilTable
    /\ \E k \in 2..Len(src) :
          /\ CellStartsAt(src, 0, k, rcfg)
          /\ src[k] = QUOTE /\ Unclosed(src, k + 1)
          /\ src[k - 1] = LF

(***************************************************************************)
(* C5.  Any unexpected terminator is a fatal format error: when the first  *)
(* cell ReadRow scans is a closed quoted field and the byte after its run  *)
(* of trailing spaces is a byte of the input other than FieldDelim, '\n'   *)
(* and '\r', the 0x00 byte included, ReadRow returns no row and an error   *)
(* that is neither nil nor io.EOF.                                         *)
(***************************************************************************)
C5_UnexpectedTerminator ==
    ( /\ ret.op = "ReadRow"
      /\ LET o == FirstSig(src, ret.from, rcfg)
             c == FirstIn(src, o, {QUOTE})
             t == FirstNotIn(src, c, {SP})
         IN  /\ o <= Len(src) /\ src[o] = QUOTE
             /\ c <= Len(src)
             /\ t <= Len(src)
             /\ src[t] \notin {rcfg.FieldDelim, LF, CR, QUOTE} )
    => ret.row = <<>> /\ ret.err \notin {"nil", "EOF"}

(***************************************************************************)
(* C6.  Byte-source failures propagate unchanged: a ReadRow call during    *)
(* which the byte source reported an error other than io.EOF returns that  *)
(* error.                                                                  *)
(***************************************************************************)
C6_SourceErrorReturned ==
    (ret.op = "ReadRow" /\ srcEnd = "ErrIO" /\ pos = Len(src) + 1) => ret.err = "ErrIO"

(***************************************************************************)
(* C7.  Quoting decision of the cell writer: a field written as the only   *)
(* cell of the first row reaches the sink wrapped in double quotes if it   *)
(* is non-empty and starts or ends with a space, or holds a '\n', a '"', a *)
(* '\t' or the FieldDelim byte; otherwise its bytes reach the sink         *)
(* unchanged.                                                              *)
(***************************************************************************)
C7_QuotesIffNeeded ==
    (Len(written) = 1 /\ Len(written[1].row) = 1 /\ werr = "nil")
    => LET f == written[1].row[1]
           d == written[1].delim
           must == \/ f # <<>> /\ (f[1] = SP \/ f[Len(f)] = SP)
                   \/ Bytes(f) \cap {LF, QUOTE, TAB, d} # {}
       IN  sink = (IF must THEN <<QUOTE>> \o Doubled(f) \o <<QUOTE>> ELSE f) \o <<LF>>

(***************************************************************************)
(* C8.  Row emission and flush: while every WriteRow call has returned     *)
(* nil, the sink holds exactly the lines of the rows written, in call      *)
(* order, each the row's encoded cells joined by one FieldDelim and ended  *)
(* by one '\n', and no byte is left in the Writer's buffer.                *)
(***************************************************************************)
C8_RowsEmitted ==
    werr = "nil" => wbuf = <<>> /\ sink = Lines(written)

\* Two rows were written without error, the first of two cells.
C8_Witness ==
    /\ werr = "nil"
    /\ Len(written) = 2
    /\ Len(written[1].row) = 2
    /\ sink # <<>>

(***************************************************************************)
(* C9.  Trimming applies to unquoted fields only: with TrimSpaces=true the *)
(* text parseCell returns for an unquoted cell is the cell's raw bytes     *)
(* without their leading spaces and their trailing spaces and '\r', and    *)
(* neither starts nor ends with a space; with TrimSpaces=false it is the   *)
(* raw bytes, spaces kept (only the '\r' of a "\r\n" line ending is        *)
(* dropped); the text of a quoted cell is every byte between the quotes.   *)
(***************************************************************************)
C9_TrimUnquotedOnly ==
    (ret.op = "parseCell" /\ ret.err = "nil")
    => LET o == FirstSig(src, ret.from, rcfg)
           t == FirstIn(src, ret.from, {rcfg.FieldDelim, LF})
           raw == SubSeq(src, ret.from + 1, t - 1)
           c == FirstIn(src, o, {QUOTE})
       IN  IF o <= Len(src) /\ src[o] = QUOTE
           THEN (c <= Len(src) /\ (c = Len(src) \/ src[c + 1] # QUOTE))
                => ret.text = SubSeq(src, o + 1, c - 1)
           ELSE IF rcfg.TrimSpaces
           THEN /\ ret.text = TrimRight(TrimLeft(raw))
                /\ ret.text # <<>> => ret.text[1] # SP /\ ret.text[Len(ret.text)] # SP
           ELSE IF t <= Len(src) /\ src[t] = LF /\ raw # <<>> /\ raw[Len(raw)] = CR
           THEN ret.text = SubSeq(raw, 1, Len(raw) - 1)
           ELSE ret.text = raw

\* With trimming on, an unquoted cell with a space on both sides of a data
\* byte was parsed.
C9_Witness ==
    /\ ret.op = "parseCell" /\ ret.err = "nil" /\ ret.from = 0
    /\ rcfg.TrimSpaces
    /\ Len(src) = 3 /\ src[1] = SP /\ src[3] = SP
    /\ Len(ret.text) = 1

(***************************************************************************)
(* C10.  CRLF line endings are equivalent to LF line endings: for an input *)
(* without '\r', replacing every row-terminating '\n' by "\r\n" gives the  *)
(* same ReadAll result (error and table), under either TrimSpaces setting, *)
(* and no field of the CRLF variant's table holds a '\r'.                  *)
(***************************************************************************)
C10_CRLFEquivalent ==
    (ret.op = "ReadAll" /\ ret.from = 0 /\ CR \notin Bytes(src))
    => LET v == ReadAllFrom(ToCRLF(src, 1, "start", rcfg), 0, srcEnd, rcfg)
       IN  /\ v.err = ret.err
           /\ v.rows = ret.rows
           /\ v.nilTable = ret.nilTable
           /\ \A i \in 1..Len(v.rows) : \A j \in 1..Len(v.rows[i]) :
                 CR \notin Bytes(v.rows[i][j])

\* A line made of one empty quoted cell and ended by '\n' was read without
\* error.
C10_Witness ==
    /\ ret.op = "ReadAll" /\ ret.from = 0 /\ ret.err = "nil"
    /\ CR \notin Bytes(src)
    /\ Len(src) = 3 /\ src[1] = QUOTE /\ src[2] = QUOTE /\ src[3] = LF
    /\ ret.rows = << << <<>> >> >>

(***************************************************************************)
(* C11.  Empty line versus end-of-input: a ReadRow call that returns a nil *)
(* error returns at least one field; a '\n' met as the first significant   *)
(* byte of a row gives the one-field row [""] and a nil error; a ReadRow   *)
(* call made when the input is used up and ends cleanly gives no row and   *)
(* io.EOF; ReadAll of the empty input gives an empty, non-nil table and a  *)
(* nil error; and ReadAll of a quote-free input that ends with '\n' gives  *)
(* a nil error and one row per '\n', none after the last.                  *)
(***************************************************************************)
C11_EmptyLineVsEof ==
    /\ (ret.op = "ReadRow" /\ ret.err = "nil") => Len(ret.row) >= 1
    /\ ( /\ ret.op = "ReadRow"
         /\ LET k == FirstSig(src, ret.from, rcfg)
            IN  k <= Len(src) /\ src[k] = LF )
       => ret.row = << <<>> >> /\ ret.err = "nil" /\ pos = FirstSig(src, ret.from, rcfg)
    /\ (ret.op = "ReadRow" /\ ret.from >= Len(src) /\ srcEnd = "EOF")
       => ret.row = <<>> /\ ret.err = "EOF"
    /\ (ret.op = "ReadAll" /\ ret.from = 0 /\ src = <<>> /\ srcEnd = "EOF")
       => ret.rows = <<>> /\ ~ret.nilTable /\ ret.err = "nil"
    /\ ( /\ ret.op = "ReadAll" /\ ret.from = 0 /\ srcEnd = "EOF"
         /\ src # <<>> /\ src[Len(src)] = LF
         /\ QUOTE \notin Bytes(src) )
       => ret.err = "nil" /\ Len(ret.rows) = CountOf(src, LF)

\* After a first row, ReadRow read an empty line as the row [""], and the
\* input went on after it.
C11_Witness ==
    /\ ret.op = "ReadRow" /\ ret.err = "nil"
    /\ ret.from >= 1 /\ ret.from + 1 < Len(src)
    /\ src[ret.from + 1] = LF
    /\ ret.row = << <<>> >>

(***************************************************************************)
(* C12.  Quoted-cell scanning: for a cell whose first significant byte is  *)
(* '"' and that has a closing quote, parseCell returns as text the bytes   *)
(* between the two quotes with every pair '""' replaced by one '"' and     *)
(* every other byte kept; the spaces after the closing quote are consumed  *)
(* under either TrimSpaces setting, and the terminator is the first        *)
(* non-space byte after them, or 0 at the end of the input; over a source  *)
(* that ends cleanly the error is nil.                                     *)
(***************************************************************************)
C12_QuotedScan ==
    ret.op = "parseCell"
    => LET o == FirstSig(src, ret.from, rcfg)
           c == ClosingAt(src, o + 1)
           t == FirstNotIn(src, c, {SP})
       IN  (o <= Len(src) /\ src[o] = QUOTE /\ c <= Len(src))
           => /\ ret.text = Undoubled(SubSeq(src, o + 1, c - 1))
              /\ ret.term = (IF t <= Len(src) THEN src[t] ELSE NUL)
              /\ pos = t
              /\ srcEnd = "EOF" => ret.err = "nil"

\* A quoted cell holding one doubled quote, closed and followed by a space
\* that ends the input, was parsed with trimming off.
C12_Witness ==
    /\ ret.op = "parseCell" /\ ret.from = 0 /\ ~rcfg.TrimSpaces
    /\ src = <<QUOTE, QUOTE, QUOTE, QUOTE, SP>>
    /\ ret.text = <<QUOTE>> /\ ret.term = NUL /\ ret.err = "nil"

(***************************************************************************)
(* C13.  Quote doubling: a field that holds n >= 1 bytes '"', written as   *)
(* the only cell of the first row, reaches the sink as an opening '"', the *)
(* field's bytes in order with each '"' written twice and every other byte *)
(* once, and a closing '"' (then the '\n' of the row): 2n+2 bytes '"' and  *)
(* len(field)+n+2 bytes in all before the '\n'.  The same bytes are what   *)
(* writeCell adds for such a field in any cell of any row written.         *)
(***************************************************************************)
C13_QuoteDoubling ==
    /\ (Len(written) >= 1 /\ Len(written[1].row) = 1 /\ werr = "nil")
       => LET f == written[1].row[1]
              n == CountOf(f, QUOTE)
              line == SubSeq(sink, 1, Len(f) + n + 3)
          IN  n >= 1
              => /\ Len(sink) >= Len(f) + n + 3
                 /\ line = <<QUOTE>> \o Doubled(f) \o <<QUOTE, LF>>
                 /\ CountOf(line, QUOTE) = 2 * n + 2
                 /\ \A i \in 2..(Len(line) - 2) :
                       line[i] # QUOTE \/ line[i - 1] = QUOTE \/ line[i + 1] = QUOTE
    /\ \A r \in 1..Len(written) : \A j \in 1..Len(written[r].row) :
          LET f == written[r].row[j]
              n == CountOf(f, QUOTE)
              out == Encoded(f, written[r].delim)
          IN  n >= 1
              => /\ out = <<QUOTE>> \o Doubled(f) \o <<QUOTE>>
                 /\ CountOf(out, QUOTE) = 2 * n + 2
                 /\ Len(out) = Len(f) + n + 2

\* A field with a '"' between two other bytes was written as the only cell
\* of the first row.
C13_Witness ==
    /\ Len(written) >= 1 /\ Len(written[1].row) = 1 /\ werr = "nil"
    /\ LET f == written[1].row[1]
       IN  Len(f) = 3 /\ f[1] # QUOTE /\ f[2] = QUOTE /\ f[3] # QUOTE
    /\ Len(sink) = 7

(***************************************************************************)
(* C14.  A '\r' terminator must be followed by '\n': when the first cell   *)
(* ReadRow scans is a closed quoted field and the byte after its run of    *)
(* trailing spaces is '\r', ReadRow returns the row with a nil error if    *)
(* the byte after the '\r' is '\n'; if it is any other byte, FieldDelim    *)
(* included, or the input ends there, ReadRow returns no row and an error  *)
(* that is neither nil nor io.EOF.                                         *)
(***************************************************************************)
C14_CRThenLF ==
    ret.op = "ReadRow"
    => LET o == FirstSig(src, ret.from, rcfg)
           c == ClosingAt(src, o + 1)
           t == FirstNotIn(src, c, {SP})
       IN  (o <= Len(src) /\ src[o] = QUOTE /\ c <= Len(src) /\ t <= Len(src) /\ src[t] = CR)
           => IF t < Len(src) /\ src[t + 1] = LF
              THEN /\ ret.err = "nil"
                   /\ ret.row = <<Undoubled(SubSeq(src, o + 1, c - 1))>>
                   /\ pos = t + 1
              ELSE ret.row = <<>> /\ ret.err \notin {"nil", "EOF"}

(***************************************************************************)
(* C15.  Config is read at every call and never written by the library.    *)
(* A ReadRow call made after the client assigned Reader.Config, bytes      *)
(* having been consumed before, returns the row and error that a Reader    *)
(* newly made over the remaining bytes with that Config returns, and       *)
(* consumes as many bytes.  A WriteRow or WriteAll call that returns nil,  *)
(* made under a FieldDelim other than that of the row written before it,   *)
(* adds to the sink the bytes a newly made Writer with that Config writes  *)
(* for the same rows.  A step in which a call returned, or in which the    *)
(* Writer's buffer, error or sink changed, leaves Config as it was.        *)
(***************************************************************************)
C15_ConfigReadFresh ==
    [][ /\ (ret.op = "none" /\ pos > 0 /\ ret'.op = "ReadRow")
           => LET f == ReadRowFrom(SubSeq(src, pos + 1, Len(src)), 0, srcEnd, rcfg')
              IN  /\ ret'.row = f.row
                  /\ ret'.err = f.err
                  /\ pos <= Len(src) => pos' = pos + f.pos
        /\ ( /\ written # <<>> /\ Len(written') > Len(written)
             /\ written[Len(written)].delim # wcfg'.FieldDelim
             /\ werr' = "nil" )
           => LET new == SubSeq(written', Len(written) + 1, Len(written'))
                  fresh == WriteAllTo([buf |-> <<>>, err |-> "nil"], <<>>,
                                      [i \in 1..Len(new) |-> new[i].row], 1, wcfg', 0, 0, <<>>)
              IN  sink' = sink \o fresh.out
        /\ ret'.op # "none" => rcfg' = rcfg
        /\ <<wbuf, werr, sink, written>>' # <<wbuf, werr, sink, written>> => wcfg' = wcfg
      ]_vars

\* After an empty line was consumed, a ReadRow call under FieldDelim ';' and
\* TrimSpaces=true has read the line ";" as the row ["", ""].
C15_Witness ==
    /\ ret.op = "ReadRow" /\ ret.from = 1 /\ ret.err = "nil"
    /\ rcfg = [TrimSpaces |-> TRUE, FieldDelim |-> SEMI]
    /\ src = <<LF, SEMI, LF>>
    /\ ret.row = << <<>>, <<>> >>

(***************************************************************************)
(* C16.  Progress and termination: a ReadRow call made while the source    *)
(* still holds bytes consumes at least one of them, and a call that        *)
(* returns a nil error has consumed one; no step moves the source back or  *)
(* changes its bytes; and ReadAll returns after at most one ReadRow call   *)
(* per byte left in the source plus one, a result without error holding    *)
(* one row per call but the last.                                          *)
(***************************************************************************)
C16_Progress ==
    /\ [](/\ pos <= Len(src) + 1
          /\ ret.op # "none" => pos >= ret.from /\ pos >= 1
          /\ (ret.op = "ReadRow" /\ ret.from < Len(src)) => pos > ret.from
          /\ (ret.op = "ReadRow" /\ ret.err = "nil") => ret.from < Len(src)
          /\ ret.op = "ReadAll"
             => LET calls == allLoopCalls(src, ret.from, srcEnd, rcfg)
                    left == IF ret.from < Len(src) THEN Len(src) - ret.from ELSE 0
                IN  /\ calls <= left + 1
                    /\ ret.err = "nil" => Len(ret.rows) = calls - 1)
    /\ [][pos' >= pos /\ src' = src /\ srcEnd' = srcEnd]_vars

\* ReadAll read three lines of a three-byte input: four ReadRow calls.
C16_Witness ==
    /\ ret.op = "ReadAll" /\ ret.from = 0 /\ ret.err = "nil"
    /\ Len(src) = 3 /\ Len(ret.rows) = 3
    /\ pos = 4

(***************************************************************************)
(* C17.  End-of-input is absorbing: a ReadRow call returns io.EOF only     *)
(* when the source has reported its clean end; once it has, it stays so    *)
(* whatever the client assigns to Config; and every ReadRow call made from *)
(* then on returns no row and io.EOF, and reads nothing.                   *)
(***************************************************************************)
C17_EofAbsorbing ==
    /\ []((ret.op = "ReadRow" /\ ret.err = "EOF") => (srcEnd = "EOF" /\ pos = Len(src) + 1))
    /\ [][ (srcEnd = "EOF" /\ pos = Len(src) + 1)
           => /\ srcEnd' = "EOF" /\ pos' = pos /\ src' = src
              /\ ret'.op = "ReadRow" => ret'.row = <<>> /\ ret'.err = "EOF"
         ]_vars

\* Under a Config other than the default one, a ReadRow call on a source of
\* three bytes that had already reported its end returned no row and io.EOF.
C17_Witness ==
    /\ ret.op = "ReadRow" /\ ret.err = "EOF" /\ ret.row = <<>>
    /\ Len(src) = 3 /\ ret.from = 4 /\ srcEnd = "EOF"
    /\ rcfg = [TrimSpaces |-> TRUE, FieldDelim |-> SEMI]

====
